---- MODULE Spec2Model ----
(***************************************************************************)
(* Memory lifecycle pipeline of TiMemory: the memory table (tidb.py), the  *)
(* session store (session_manager.py), fact extraction / consolidation /   *)
(* storage (core/memory_processor.py), the topic gate                      *)
(* (core/topic_detector.py), the chat entry points (core/chat_service.py,  *)
(* timemory.py) and the Celery tasks (tasks/memory_tasks.py,               *)
(* tasks/worker_tasks.py).                                                 *)
(*                                                                         *)
(* External collaborators are abstracted as follows.                       *)
(*  - A message or memory text is the fact it states: a pair               *)
(*    <<fact, val>>; a message that states nothing has content NoFact.     *)
(*  - The embedder maps a text to a pair of coordinates; texts about the   *)
(*    same fact are closer to each other than texts about distinct facts.  *)
(*  - The consolidation LLM follows MEMORY_CONSOLIDATION_PROMPT.           *)
(*  - uuid4() yields an id that is in use nowhere.                         *)
(***************************************************************************)
EXTENDS Integers, Sequences, FiniteSets, TLC

\* ---------------------------------------------------------------- bounds
MaxMessages == 4
MaxTasks == 2
MaxIds == 4
MaxK == 2
MaxFailPoint == 2
MaxFaults == 1
summary_threshold == 2
MaxChunks == 2
MaxRequests == 2

\* ------------------------------------------------------ program constants
memory_search_limit == 10
max_retries == 3

Users == {"u1", "u2"}
SessionOf == [u \in Users |-> IF u = "u1" THEN "s1" ELSE "s2"]
SessionIds == {SessionOf[u] : u \in Users}
Workers == {"w1", "w2"}
Ids == 1..MaxIds

NoFact == <<"none", "none">>
Contents == {<<"name", "John">>, <<"name", "Jane">>}
Statements == Contents \cup {NoFact}

Max(a, b) == IF a >= b THEN a ELSE b

\* ------------------------------------------------------------- embedder
FactIdx(f) == CASE f = "name" -> 1 [] OTHER -> 0
ValIdx(v) == CASE v = "John" -> 1 [] v = "Jane" -> 2 [] OTHER -> 0

embed(text) == <<FactIdx(text[1]), ValIdx(text[2])>>

cosine_distance(v, q) ==
    IF v = q THEN 0 ELSE IF v[1] = q[1] THEN 1 ELSE 2

\* ---------------------------------------------------------- memory table
TypeOf(content) ==
    CASE content[1] = "name" -> "personal"
      [] OTHER -> "miscellaneous"

Memory(id, user_id, content, vector, attrs) ==
    [id |-> id, user_id |-> user_id, content |-> content, vector |-> vector,
     memory_attributes |-> attrs]

MemoryAttributes(type, status) == [type |-> type, status |-> status]

MemoryConsolidationItem(id, content, attrs) ==
    [id |-> id, content |-> content, memory_attributes |-> attrs]

\* An insert that merges into the row of a stored id.
insert_memory_ok_merge(mems, id) == TRUE

\* TiDB.insert_memory: db.add + commit; the primary key rejects an id that
\* is already stored (the caller sees the exception).
insert_memory_ok(mems, id) == id \notin DOMAIN mems

insert_memory(mems, vector, user_id, content, attrs, id) ==
    [i \in DOMAIN mems \cup {id} |->
        IF i = id THEN Memory(id, user_id, content, vector, attrs) ELSE mems[i]]

\* TiDB.update_memory as _store_memories calls it: vector and
\* memory_attributes are passed, content is not; an absent id is logged
\* and ignored.
update_memory(mems, id, vector, attrs) ==
    IF id \in DOMAIN mems
    THEN [mems EXCEPT ![id].vector = vector, ![id].memory_attributes = attrs]
    ELSE mems

\* A delete that spares the rows already marked outdated.
delete_all_memories_active_only(mems, user_id) ==
    [i \in {j \in DOMAIN mems : \/ mems[j].user_id # user_id
                                 \/ mems[j].memory_attributes.status = "outdated"} |->
        mems[i]]

\* TiDB.delete_all_memories: filter(user_id == user_id).delete(); commit
delete_all_memories(mems, user_id) ==
    [i \in {j \in DOMAIN mems : mems[j].user_id # user_id} |-> mems[i]]

\* ORDER BY cosine_distance(vector, query_vector); rows at the same
\* distance are listed by id.
Before(mems, a, b, q) ==
    \/ cosine_distance(mems[a].vector, q) < cosine_distance(mems[b].vector, q)
    \/ /\ cosine_distance(mems[a].vector, q) = cosine_distance(mems[b].vector, q)
       /\ a <= b

RECURSIVE OrderByDistance(_, _, _)
OrderByDistance(mems, S, q) ==
    IF S = {} THEN <<>>
    ELSE LET m == CHOOSE x \in S : \A y \in S : Before(mems, x, y, q)
         IN <<m>> \o OrderByDistance(mems, S \ {m}, q)

Limit(seq, n) == SubSeq(seq, 1, IF Len(seq) < n THEN Len(seq) ELSE n)

\* A query without the user_id filter.
UserFilter_unscoped(mems, user_id) == DOMAIN mems

UserFilter(mems, user_id) == {i \in DOMAIN mems : mems[i].user_id = user_id}

\* TiDB.search_memories: filter(user_id == user_id).order_by(distance).limit(limit)
search_memories(mems, query_vector, user_id, limit) ==
    LET ids == Limit(OrderByDistance(mems, UserFilter(mems, user_id), query_vector), limit)
    IN [i \in 1..Len(ids) |-> mems[ids[i]]]

\* MemoryProcessor.search
search(mems, query, user_id, limit) ==
    search_memories(mems, embed(query), user_id, limit)

\* ------------------------------------------------------ MemoryProcessor
Message(role, content) == [role |-> role, content |-> content]

\* The extraction LLM under FACT_EXTRACTION_PROMPT: one memory per fact
\* stated in the user and assistant messages, holding the value stated
\* last; nothing from system messages; an empty list when nothing is stated.
RECURSIVE ExtractFrom(_, _, _)
ExtractFrom(messages, i, acc) ==
    IF i > Len(messages) THEN acc
    ELSE LET m == messages[i]
             stated == m.role \in {"user", "assistant"} /\ m.content # NoFact
             known == \E k \in 1..Len(acc) : acc[k][1] = m.content[1]
         IN ExtractFrom(messages, i + 1,
                IF ~stated THEN acc
                ELSE IF known
                     THEN [k \in 1..Len(acc) |->
                              IF acc[k][1] = m.content[1] THEN m.content ELSE acc[k]]
                     ELSE Append(acc, m.content))

_extract_memories(messages) == ExtractFrom(messages, 1, <<>>)

\* process_memories lines 38-50: every extracted item gets a fresh uuid4
\* and status "active".
NewItems(extracted, ids) ==
    [i \in 1..Len(extracted) |->
        MemoryConsolidationItem(ids[i], extracted[i],
                                MemoryAttributes(TypeOf(extracted[i]), "active"))]

SeqIds(items) == {items[i].id : i \in 1..Len(items)}

RECURSIVE AppendUnseen(_, _, _)
AppendUnseen(acc, found, j) ==
    IF j > Len(found) THEN acc
    ELSE AppendUnseen(
            IF found[j].id \in SeqIds(acc) THEN acc
            ELSE Append(acc, MemoryConsolidationItem(found[j].id, found[j].content,
                                                     found[j].memory_attributes)),
            found, j + 1)

RECURSIVE FindSimilarFrom(_, _, _, _, _)
FindSimilarFrom(mems, new, user_id, i, acc) ==
    IF i > Len(new) THEN acc
    ELSE FindSimilarFrom(mems, new, user_id, i + 1,
            AppendUnseen(acc,
                         search_memories(mems, embed(new[i].content), user_id,
                                         memory_search_limit),
                         1))

\* A search that finds nothing.
_find_similar_memories_none(mems, new, user_id) == <<>>

_find_similar_memories(mems, new, user_id) == FindSimilarFrom(mems, new, user_id, 1, <<>>)

\* The consolidation LLM under MEMORY_CONSOLIDATION_PROMPT, candidate by
\* candidate: identical to an active existing memory -> nothing (rule 3);
\* conflicting with active existing memories (same fact, other value) ->
\* those memories with status "outdated", then the candidate (rule 2);
\* otherwise the candidate itself (rule 1).
Identical(existing, c) ==
    \E k \in 1..Len(existing) :
        /\ existing[k].content = c.content
        /\ existing[k].memory_attributes.status = "active"

\* A consolidation that takes every other active memory for superseded.
Conflicting_any_fact(existing, c) ==
    SelectSeq(existing,
              LAMBDA e : /\ e.content # c.content
                         /\ e.memory_attributes.status = "active")

Conflicting(existing, c) ==
    SelectSeq(existing,
              LAMBDA e : /\ e.content[1] = c.content[1]
                         /\ e.content # c.content
                         /\ e.memory_attributes.status = "active")

Outdated(items) ==
    [k \in 1..Len(items) |->
        MemoryConsolidationItem(items[k].id, items[k].content,
            MemoryAttributes(items[k].memory_attributes.type, "outdated"))]

RECURSIVE ConsolidateFrom(_, _, _)
ConsolidateFrom(existing, new, i) ==
    IF i > Len(new) THEN <<>>
    ELSE (IF Identical(existing, new[i]) THEN <<>>
          ELSE Outdated(Conflicting(existing, new[i])) \o <<new[i]>>)
         \o ConsolidateFrom(existing, new, i + 1)

_consolidate_memories(existing, new) == ConsolidateFrom(existing, new, 1)

\* process_memories lines 52-62: with no similar memory the new items are
\* stored as they are, otherwise the consolidation response is stored.
ToStore(existing, new) ==
    IF Len(existing) = 0 THEN new ELSE _consolidate_memories(existing, new)

\* MemoryProcessor._store_memories: item by item, each write its own
\* commit.  failAt = i is embedder.embed raising on item i (0: it never
\* raises); insert_memory raises on a stored id.  The writes made before
\* the exception stay.
RECURSIVE StoreFrom(_, _, _, _, _)
StoreFrom(mems, items, user_id, i, failAt) ==
    IF i > Len(items) THEN [store |-> mems, ok |-> TRUE]
    ELSE IF i = failAt THEN [store |-> mems, ok |-> FALSE]
    ELSE LET m == items[i]
             embedding == embed(m.content)
         IN IF m.memory_attributes.status = "outdated"
            THEN StoreFrom(update_memory(mems, m.id, embedding, m.memory_attributes),
                           items, user_id, i + 1, failAt)
            ELSE IF ~insert_memory_ok(mems, m.id)
                 THEN [store |-> mems, ok |-> FALSE]
                 ELSE StoreFrom(insert_memory(mems, embedding, user_id, m.content,
                                              m.memory_attributes, m.id),
                                items, user_id, i + 1, failAt)

_store_memories(mems, items, user_id, failAt) == StoreFrom(mems, items, user_id, 1, failAt)

\* MemoryProcessor.process_memories run without interruption on a store
\* (failAt = -1: the extraction call raises).
process_memories(mems, messages, user_id, ids, failAt) ==
    LET extracted == _extract_memories(messages)
        new == NewItems(extracted, ids)
    IN IF failAt = -1 THEN [store |-> mems, ok |-> FALSE]
       ELSE IF Len(extracted) = 0 THEN [store |-> mems, ok |-> TRUE]
       ELSE _store_memories(mems, ToStore(_find_similar_memories(mems, new, user_id), new),
                            user_id, failAt)

\* -------------------------------------------------------- SessionManager
Session(user_id) ==
    [user_id |-> user_id, messages |-> <<>>, summary |-> 0,
     last_summary_generated_at |-> 0, last_memory_processed_at |-> 0]

add_message_to_session(sess, s, role, content) ==
    [sess EXCEPT ![s].messages = Append(@, Message(role, content))]

\* A count that is one too high.
get_message_count_plus_one(sess, s) ==
    IF s \in DOMAIN sess THEN Len(sess[s].messages) + 1 ELSE 0

get_message_count(sess, s) ==
    IF s \in DOMAIN sess THEN Len(sess[s].messages) ELSE 0

get_last_memory_processed_at(sess, s) == sess[s].last_memory_processed_at

get_last_summary_generated_at(sess, s) == sess[s].last_summary_generated_at

get_session_summary(sess, s) == sess[s].summary

get_messages_since_count(sess, s, n) ==
    SubSeq(sess[s].messages, n + 1, Len(sess[s].messages))

\* A plain assignment of the column.
update_last_memory_processed_at_assign(sess, s, n) ==
    IF s \in DOMAIN sess
    THEN [sess EXCEPT ![s].last_memory_processed_at = n]
    ELSE sess

update_last_memory_processed_at(sess, s, n) ==
    IF s \in DOMAIN sess
    THEN [sess EXCEPT ![s].last_memory_processed_at = Max(@, n)]
    ELSE sess

update_session_summary(sess, s, summary, n) ==
    IF s \in DOMAIN sess /\ n >= sess[s].last_summary_generated_at
    THEN [sess EXCEPT ![s].summary = summary, ![s].last_summary_generated_at = n]
    ELSE sess

\* The summary LLM: a summary is identified by the number of messages of
\* the session it was written from (0: no summary).
generate_conversation_summary(sess, s) == get_message_count(sess, s)

\* SummaryService.should_generate_summary
should_generate_summary(sess, s, current_message_count) ==
    current_message_count - get_last_summary_generated_at(sess, s) >= summary_threshold

\* ---------------------------------------------------------- TopicDetector
\* A gate that lets every call through to the detector.
Gate_open(sess, s) == "Ready"

\* TopicDetector._should_process_memories (lines 109-118)
_should_process_memories(sess, s) ==
    get_message_count(sess, s) > get_last_memory_processed_at(sess, s)

\* check_and_process_topic_change, lines 39-49: the two early returns
\* before the detector is asked.
Gate(sess, s) ==
    IF ~_should_process_memories(sess, s) THEN "NoWork"
    ELSE IF Len(get_messages_since_count(sess, s, get_last_memory_processed_at(sess, s))) < 2
         THEN "NotReady"
         ELSE "Ready"

\* TopicDetector.check_and_process_topic_change; topic_changed is the answer
\* of detect_topic_change on the unprocessed window, failAt the point where
\* memory processing raises, summary_ok whether the summary call returns.
\* Every exception ends the call (lines 74-76) with what was written so far.
check_and_process_topic_change(sess, mems, user_id, s, topic_changed, ids, failAt, summary_ok) ==
    LET last_processed_at == get_last_memory_processed_at(sess, s)
        unprocessed == get_messages_since_count(sess, s, last_processed_at)
        unchanged == [sessions |-> sess, memories |-> mems, changed |-> FALSE]
    IN IF Gate(sess, s) # "Ready" THEN unchanged
       ELSE IF ~topic_changed THEN unchanged
       ELSE LET r == process_memories(mems, unprocessed, user_id, ids, failAt)
                advanced == update_last_memory_processed_at(sess, s, get_message_count(sess, s))
            IN IF ~r.ok THEN [sessions |-> sess, memories |-> r.store, changed |-> TRUE]
               ELSE IF should_generate_summary(advanced, s, get_message_count(advanced, s))
                       /\ summary_ok
                    THEN [sessions |-> update_session_summary(advanced, s,
                                          generate_conversation_summary(advanced, s),
                                          get_message_count(advanced, s)),
                          memories |-> r.store, changed |-> TRUE]
                    ELSE [sessions |-> advanced, memories |-> r.store, changed |-> TRUE]

\* ------------------------------------------------------------------ state
\* deployment: which chat entry point the process was wired with, the
\* ChatService with its TopicDetector ("core") or the TiMemory facade that
\* hands every turn to the Celery worker ("facade").
VARIABLES deployment, sessions, memories, queue, dead, workers, nextTask, faults, detected,
          streams, on_turns, summaries, done, response, txns, result

vars == <<deployment, sessions, memories, queue, dead, workers, nextTask, faults, detected,
          streams, on_turns, summaries, done, response, txns, result>>

NoJob == [task_id |-> 0, kind |-> "none", user_id |-> "none", session_id |-> "none",
          messages |-> <<>>, retries |-> 0, error |-> "none"]

Idle == [pc |-> "idle", job |-> NoJob, new |-> <<>>, existing |-> <<>>, count |-> 0,
         summary |-> 0]

Job(task_id, kind, user_id, session_id, messages) ==
    [task_id |-> task_id, kind |-> kind, user_id |-> user_id, session_id |-> session_id,
     messages |-> messages, retries |-> 0, error |-> "none"]

\* The streamed chat request of a session: none yet (idle), open
\* (full_response counts the chunks yielded so far), run to its end (done)
\* or cancelled by the client.
NoStream == [pc |-> "idle", message |-> NoFact, full_response |-> 0]

\* The answer to the last HTTP request of the backend: the status, the
\* error code, the request_id of the body, the X-Request-ID header and the
\* owner a body names ("none": the field is absent).
NoResponse == [status_code |-> 0, error_code |-> "none", request_id |-> "none",
               x_request_id |-> "none", session_owner |-> "none"]

\* What the last direct call of a store method gave its caller: the
\* method, the id it named and the exception it raised ("none": it returned).
NoResult == [call |-> "none", id |-> 0, error |-> "none"]

\* The requests that append to a session at the same time, and the
\* database transaction of one: the messages column as it was read.
Requests == 1..MaxRequests

NoTxn == [pc |-> "idle", session_id |-> "none", messages |-> <<>>]

Init ==
    /\ deployment \in {"core", "facade"}
    /\ sessions = << >>
    /\ memories = << >>
    /\ queue = {}
    /\ dead = {}
    /\ workers = [w \in Workers |-> Idle]
    /\ nextTask = 1
    /\ faults = 0
    /\ detected = {}
    /\ streams = [s \in SessionIds |-> NoStream]
    /\ on_turns = [s \in SessionIds |-> <<>>]
    /\ summaries = [s \in SessionIds |-> <<>>]
    /\ done = {}
    /\ response = NoResponse
    /\ txns = [r \in Requests |-> NoTxn]
    /\ result = NoResult

\* uuid4(): ids that are neither stored nor held by a running task.
UsedIds ==
    DOMAIN memories
        \cup UNION {SeqIds(workers[w].new) \cup SeqIds(workers[w].existing) : w \in Workers}

RECURSIVE Smallest(_, _)
Smallest(S, n) ==
    IF n = 0 THEN <<>>
    ELSE LET m == CHOOSE x \in S : \A y \in S : x <= y
         IN <<m>> \o Smallest(S \ {m}, n - 1)

CanAllocate(n) == Cardinality(Ids \ UsedIds) >= n

uuid4(n) == Smallest(Ids \ UsedIds, n)

\* SessionManager.create_session; the new session id is SessionOf[user_id].
create_session(user_id) ==
    /\ SessionOf[user_id] \notin DOMAIN sessions
    /\ sessions' = [x \in DOMAIN sessions \cup {SessionOf[user_id]} |->
                      IF x = SessionOf[user_id] THEN Session(user_id) ELSE sessions[x]]
    /\ UNCHANGED <<deployment, response, txns, result, memories, queue, dead, workers, nextTask, faults, detected,
                 streams, on_turns, summaries, done>>

\* -------------------------------------------------------------- chat turn
\* A turn stored with the reply ahead of the message it answers.
AppendTurn_assistant_first(sess, s, content) ==
    add_message_to_session(add_message_to_session(sess, s, "assistant", NoFact),
                           s, "user", content)

\* add_message_to_session(session_id, "user", message, ...) and then
\* add_message_to_session(session_id, "assistant", <the generated text>, ...)
AppendTurn(sess, s, content) ==
    add_message_to_session(add_message_to_session(sess, s, "user", content),
                           s, "assistant", NoFact)

CanChat(s) ==
    /\ s \in DOMAIN sessions
    /\ Len(sessions[s].messages) + 2 <= MaxMessages

\* ChatService.chat_with_memory: both messages are stored, then the topic
\* detector runs inside the request.
chat_with_memory(s, content, topic_changed, failAt, summary_ok) ==
    /\ deployment = "core"
    /\ CanChat(s)
    /\ LET user_id == sessions[s].user_id
           stored == AppendTurn(sessions, s, content)
           window == get_messages_since_count(stored, s,
                                              get_last_memory_processed_at(stored, s))
           n == Len(_extract_memories(window))
       IN /\ CanAllocate(n)
          /\ LET r == check_and_process_topic_change(stored, memories, user_id, s,
                                                     topic_changed, uuid4(n), failAt,
                                                     summary_ok)
             IN /\ sessions' = r.sessions
                /\ memories' = r.memories
                /\ detected' = IF topic_changed /\ Len(window) >= 2
                               THEN detected \cup {s} ELSE detected
          /\ on_turns' = [on_turns EXCEPT ![s] = Append(@, get_message_count(stored, s))]
    /\ UNCHANGED <<deployment, response, txns, queue, dead, workers, nextTask, faults,
                 streams, summaries, done>>

ChatService_chat_with_memory(s, content, topic_changed, failAt, summary_ok) ==
    /\ chat_with_memory(s, content, topic_changed, failAt, summary_ok)
    /\ result' = result

\* TiMemory.queue_memory_processing: process_memories.delay(messages, user_id, session_id)
queue_memory_processing(messages, user_id, session_id) ==
    /\ nextTask <= MaxTasks
    /\ queue' = queue \cup {Job(nextTask, "memory", user_id, session_id, messages)}
    /\ nextTask' = nextTask + 1

\* A turn that hands every message above the watermark to the worker.
TiMemory_chat_with_memory_window(s, content) ==
    /\ deployment = "facade"
    /\ CanChat(s)
    /\ sessions' = AppendTurn(sessions, s, content)
    /\ queue_memory_processing(
          get_messages_since_count(AppendTurn(sessions, s, content), s,
                                   get_last_memory_processed_at(sessions, s)),
          sessions[s].user_id, s)
    /\ UNCHANGED <<deployment, response, txns, result, memories, dead, workers, faults, detected,
                 streams, on_turns, summaries, done>>

\* TiMemory.chat_with_memory: both messages are stored and the turn is
\* handed to the background worker.
TiMemory_chat_with_memory(s, content) ==
    /\ deployment = "facade"
    /\ CanChat(s)
    /\ sessions' = AppendTurn(sessions, s, content)
    /\ queue_memory_processing(<<Message("user", content), Message("assistant", NoFact)>>,
                               sessions[s].user_id, s)
    /\ UNCHANGED <<deployment, response, txns, result, memories, dead, workers, faults, detected,
                 streams, on_turns, summaries, done>>

\* TiMemory.queue_summary_processing
queue_summary_processing(s) ==
    /\ deployment = "facade"
    /\ s \in DOMAIN sessions
    /\ nextTask <= MaxTasks
    /\ queue' = queue \cup {Job(nextTask, "summary", sessions[s].user_id, s, <<>>)}
    /\ nextTask' = nextTask + 1
    /\ UNCHANGED <<deployment, response, txns, result, sessions, memories, dead, workers, faults, detected,
                 streams, on_turns, summaries, done>>

\* ------------------------------------------------------------ Celery tasks
\* A handler that stored the watermark on its way out of the exception.
retry_advancing(w, job, exc) ==
    /\ IF job.retries < max_retries
       THEN /\ queue' = (queue \ {job})
                          \cup {[job EXCEPT !.retries = @ + 1, !.error = exc]}
            /\ dead' = dead
       ELSE /\ dead' = dead \cup {[job EXCEPT !.error = exc]}
            /\ queue' = queue \ {job}
    /\ workers' = [workers EXCEPT ![w] = Idle]
    /\ faults' = faults + 1
    /\ sessions' = update_last_memory_processed_at(sessions, job.session_id,
                        get_message_count(sessions, job.session_id))

\* A handler that compares the retries with the limit one attempt too late.
retry_off_by_one(w, job, exc) ==
    /\ IF job.retries <= max_retries
       THEN /\ queue' = (queue \ {job})
                          \cup {[job EXCEPT !.retries = @ + 1, !.error = exc]}
            /\ dead' = dead
       ELSE /\ dead' = dead \cup {[job EXCEPT !.error = exc]}
            /\ queue' = queue \ {job}
    /\ workers' = [workers EXCEPT ![w] = Idle]
    /\ faults' = faults + 1
    /\ sessions' = sessions

\* except Exception: self.retry(countdown=60, max_retries=3); raise
\* The task goes back to the broker until its retries are used up; the
\* handler writes nothing to the session.
retry(w, job, exc) ==
    /\ IF job.retries < max_retries
       THEN /\ queue' = (queue \ {job})
                          \cup {[job EXCEPT !.retries = @ + 1, !.error = exc]}
            /\ dead' = dead
       ELSE /\ dead' = dead \cup {[job EXCEPT !.error = exc]}
            /\ queue' = queue \ {job}
    /\ workers' = [workers EXCEPT ![w] = Idle]
    /\ faults' = faults + 1
    /\ sessions' = sessions

\* A worker that searches and consolidates also for an empty extraction.
StartMemory_no_early_return(w, ok) ==
    /\ workers[w].pc = "idle"
    /\ \E job \in queue :
        /\ job.kind = "memory"
        /\ LET extracted == _extract_memories(job.messages)
               new == NewItems(extracted, uuid4(Len(extracted)))
           IN IF ~ok THEN faults < MaxFaults /\ retry(w, job, "Transient")
              ELSE /\ CanAllocate(Len(extracted))
                   /\ faults' = faults
                   /\ sessions' = sessions
                   /\ queue' = queue \ {job}
                   /\ workers' = [workers EXCEPT ![w] =
                         [Idle EXCEPT !.job = job, !.pc = "store", !.new = new,
                              !.existing = _find_similar_memories(memories, new,
                                                                  job.user_id)]]
                   /\ dead' = dead
    /\ UNCHANGED <<deployment, response, txns, result, memories, nextTask, detected,
                 streams, on_turns, summaries, done>>

\* A worker takes a memory task off the broker and runs process_memories
\* up to the search for similar memories (lines 31-52).
StartMemory(w, ok) ==
    /\ workers[w].pc = "idle"
    /\ \E job \in queue :
        /\ job.kind = "memory"
        /\ LET extracted == _extract_memories(job.messages)
               new == NewItems(extracted, uuid4(Len(extracted)))
           IN IF ~ok THEN faults < MaxFaults /\ retry(w, job, "Transient")
              ELSE /\ CanAllocate(Len(extracted))
                   /\ faults' = faults
                   /\ sessions' = sessions
                   /\ queue' = queue \ {job}
                   /\ workers' = [workers EXCEPT ![w] =
                         IF Len(extracted) = 0
                         THEN [Idle EXCEPT !.job = job, !.pc = "advance",
                                  !.count = get_message_count(sessions, job.session_id)]
                         ELSE [Idle EXCEPT !.job = job, !.pc = "store", !.new = new,
                                  !.existing = _find_similar_memories(memories, new,
                                                                      job.user_id)]]
                   /\ dead' = dead
    /\ UNCHANGED <<deployment, response, txns, result, memories, nextTask, detected,
                 streams, on_turns, summaries, done>>

\* process_memories, lines 53-62: consolidation and the writes; then the
\* task reads the message count of the session (memory_tasks.py line 35).
Store(w, failAt) ==
    /\ workers[w].pc = "store"
    /\ LET job == workers[w].job
           r == _store_memories(memories, ToStore(workers[w].existing, workers[w].new),
                                job.user_id, failAt)
       IN /\ failAt <= Len(ToStore(workers[w].existing, workers[w].new))
          /\ failAt # 0 => faults < MaxFaults
          /\ memories' = r.store
          /\ IF r.ok
             THEN /\ workers' = [workers EXCEPT ![w] =
                        [@ EXCEPT !.pc = "advance", !.new = <<>>, !.existing = <<>>,
                                  !.count = get_message_count(sessions, job.session_id)]]
                  /\ UNCHANGED <<sessions, queue, dead, faults>>
             ELSE retry(w, job, "Transient")
    /\ UNCHANGED <<deployment, response, txns, result, nextTask, detected,
                 streams, on_turns, summaries, done>>

\* A worker takes a summary task and runs _generate_and_update_summary up
\* to the embedding of the new summary (lines 132-138).
StartSummary(w, ok) ==
    /\ workers[w].pc = "idle"
    /\ \E job \in queue :
        /\ job.kind = "summary"
        /\ IF ~ok THEN faults < MaxFaults /\ retry(w, job, "Transient")
           ELSE /\ queue' = queue \ {job}
                /\ faults' = faults
                /\ sessions' = sessions
                /\ workers' = [workers EXCEPT ![w] =
                      [Idle EXCEPT !.job = job, !.pc = "advance",
                           !.summary = generate_conversation_summary(sessions, job.session_id),
                           !.count = get_message_count(sessions, job.session_id)]]
                /\ dead' = dead
    /\ UNCHANGED <<deployment, response, txns, result, memories, nextTask, detected,
                 streams, on_turns, summaries, done>>

\* update_last_memory_processed_at / update_session_summary, then the task
\* returns {"status": "success"}.
Advance(w) ==
    /\ workers[w].pc = "advance"
    /\ LET job == workers[w].job
       IN /\ sessions' =
                IF job.kind = "memory"
                THEN update_last_memory_processed_at(sessions, job.session_id, workers[w].count)
                ELSE update_session_summary(sessions, job.session_id, workers[w].summary,
                                            workers[w].count)
    /\ workers' = [workers EXCEPT ![w] = Idle]
    /\ done' = done \cup {workers[w].job.task_id}
    /\ UNCHANGED <<deployment, response, txns, result, memories, queue, dead, nextTask, faults, detected,
                 streams, on_turns, summaries>>

\* MemoryProcessor.delete_all
delete_all(user_id) ==
    /\ UserFilter(memories, user_id) # {}
    /\ memories' = delete_all_memories(memories, user_id)
    /\ UNCHANGED <<deployment, response, txns, result, sessions, queue, dead, workers, nextTask, faults, detected,
                 streams, on_turns, summaries, done>>

FailPoints == -1..MaxFailPoint

\* The sessions driven through the facade: its turns and summary requests
\* come from one user, whose tasks the two workers run concurrently.
FacadeSessions == {SessionOf["u1"]}

Next ==
    \/ \E u \in Users : create_session(u)
    \/ \E s \in SessionIds, c \in Statements, t \in BOOLEAN, f \in FailPoints, ok \in BOOLEAN :
          ChatService_chat_with_memory(s, c, t, f, ok)
    \/ \E s \in FacadeSessions, c \in Statements : TiMemory_chat_with_memory(s, c)
    \/ \E s \in FacadeSessions : queue_summary_processing(s)
    \/ \E w \in Workers, ok \in BOOLEAN : StartMemory(w, ok)
    \/ \E w \in Workers, f \in 0..MaxFailPoint : Store(w, f)
    \/ \E w \in Workers, ok \in BOOLEAN : StartSummary(w, ok)
    \/ \E w \in Workers : Advance(w)
    \/ \E u \in Users : delete_all(u)

Spec == Init /\ [][Next]_vars

TypeOK ==
    /\ DOMAIN sessions \subseteq SessionIds
    /\ DOMAIN memories \subseteq Ids
    /\ nextTask \in 1..(MaxTasks + 1)

\* ------------------------------------------- direct runs of process_memories
\* One turn as the chat entry points store it, and the message windows of
\* one or two turns a caller can hand to process_memories.
TurnMessages(c) == <<Message("user", c), Message("assistant", NoFact)>>

Windows ==
    {TurnMessages(c) : c \in Statements}
        \cup {TurnMessages(c) \o TurnMessages(d) : c \in Statements, d \in Statements}

\* TiMemory.process_memories called in the caller's thread: the whole method
\* runs on the store, failAt the point where it raises (0: it returns).
TiMemory_process_memories(messages, user_id, failAt) ==
    /\ deployment = "facade"
    /\ CanAllocate(Len(_extract_memories(messages)))
    /\ memories' = process_memories(memories, messages, user_id,
                                    uuid4(Len(_extract_memories(messages))), failAt).store
    /\ UNCHANGED <<deployment, response, txns, result, sessions, queue, dead, workers, nextTask, faults, detected,
                 streams, on_turns, summaries, done>>

NextRerun ==
    \E u \in Users, win \in Windows, f \in FailPoints :
        TiMemory_process_memories(win, u, f)

InitRerun == Init /\ deployment = "facade"

SpecRerun == InitRerun /\ [][NextRerun]_vars

\* ------------------------------------------------- tasks that keep failing
\* What a task body can raise: an error that a later attempt may not meet
\* (timeout, 5xx, dropped connection) or one that every attempt meets.
Exceptions == {"Transient", "Permanent"}

\* A task execution whose body raises before its first write (TiMemory(config),
\* the extraction call or the database is unavailable): control reaches
\* the except clause with the exception exc.
process_raises(w, exc) ==
    /\ workers[w].pc = "idle"
    /\ \E job \in queue : retry(w, job, exc)
    /\ UNCHANGED <<deployment, response, txns, result, memories, nextTask, detected,
                 streams, on_turns, summaries, done>>

\* The turns state no fact: what a task extracts plays no part in how
\* often it is attempted.
NextRetry ==
    \/ \E u \in Users : create_session(u)
    \/ \E s \in FacadeSessions : TiMemory_chat_with_memory(s, NoFact)
    \/ \E s \in FacadeSessions : queue_summary_processing(s)
    \/ \E w \in Workers, exc \in Exceptions : process_raises(w, exc)
    \/ \E w \in Workers : StartMemory(w, TRUE)
    \/ \E w \in Workers : StartSummary(w, TRUE)
    \/ \E w \in Workers : Advance(w)

InitRetry == Init /\ deployment = "facade"

SpecRetry == InitRetry /\ [][NextRetry]_vars

\* --------------------------------------------------------- worker crashes
\* task_acks_late = False: the message was acknowledged when the worker
\* received it, so nothing is left to deliver again.
Crash_acked_early(w, lost) ==
    /\ workers[w].pc # "idle"
    /\ faults < MaxFaults
    /\ faults' = faults + 1
    /\ workers' = [workers EXCEPT ![w] = Idle]
    /\ UNCHANGED <<deployment, response, txns, result, sessions, memories, queue, dead, nextTask, detected,
                 streams, on_turns, summaries, done>>

\* task_acks_late = True: a task is acknowledged after it returned, so the
\* message of a task whose worker dies is still unacknowledged. When the
\* whole worker is gone the broker delivers the message again; when only
\* the child process that ran the task is lost, the worker acknowledges
\* the message and records the task as failed with WorkerLostError.
Crash(w, lost) ==
    /\ workers[w].pc # "idle"
    /\ faults < MaxFaults
    /\ faults' = faults + 1
    /\ workers' = [workers EXCEPT ![w] = Idle]
    /\ IF lost
       THEN /\ dead' = dead \cup {[workers[w].job EXCEPT !.error = "WorkerLostError"]}
            /\ queue' = queue
       ELSE /\ queue' = queue \cup {workers[w].job}
            /\ dead' = dead
    /\ UNCHANGED <<deployment, response, txns, result, sessions, memories, nextTask, detected,
                 streams, on_turns, summaries, done>>

\* What the running workers do on their own with tasks of fact-free turns.
WorkerStep ==
    \/ \E w \in Workers : StartMemory(w, TRUE)
    \/ \E w \in Workers : StartSummary(w, TRUE)
    \/ \E w \in Workers : Advance(w)

NextCrash ==
    \/ \E u \in Users : create_session(u)
    \/ \E s \in FacadeSessions : TiMemory_chat_with_memory(s, NoFact)
    \/ \E s \in FacadeSessions : queue_summary_processing(s)
    \/ \E w \in Workers, lost \in BOOLEAN : Crash(w, lost)
    \/ WorkerStep

\* A worker that is up keeps taking tasks off the broker and runs the one
\* it holds to its end (worker_prefetch_multiplier = 1).
SpecCrash == InitRetry /\ [][NextCrash]_vars /\ WF_vars(WorkerStep)

\* ------------------------------------------------------- summaries table
\* config.message_limit, twice the summary threshold as in the documented
\* setting (20 and 10).
message_limit == 2 * summary_threshold

NoSummary == [content |-> 0, message_count_at_creation |-> 0]

\* SessionManager.create_summary: one row, one commit. The rows of a session
\* are kept in the order of their created_at.
create_summary(rows, s, content, message_count) ==
    [rows EXCEPT ![s] = Append(@, [content |-> content,
                                   message_count_at_creation |-> message_count])]

\* SessionManager.get_latest_summary: order_by(Summary.created_at.desc()).first()
get_latest_summary(rows, s) ==
    IF Len(rows[s]) = 0 THEN NoSummary ELSE rows[s][Len(rows[s])]

\* SessionManager.should_generate_summary(session_id, message_limit, summary_threshold)
SessionManager_should_generate_summary(sess, rows, s) ==
    LET current_count == get_message_count(sess, s)
    IN IF current_count < message_limit THEN FALSE
       ELSE IF Len(rows[s]) = 0 THEN TRUE
       ELSE current_count - get_latest_summary(rows, s).message_count_at_creation
                >= summary_threshold

\* SessionManager.add_message_to_session called by a client of the library.
add_message(s, role) ==
    /\ s \in DOMAIN sessions
    /\ Len(sessions[s].messages) < message_limit + summary_threshold
    /\ sessions' = add_message_to_session(sessions, s, role, NoFact)
    /\ UNCHANGED <<deployment, response, txns, result, memories, queue, dead, workers, nextTask, faults, detected,
                 streams, on_turns, summaries, done>>

\* A worker takes a summary task and runs TiMemory.process_summaries up to
\* the embedding of the new summary (lines 122-133): the gate, the
\* generation and the read of the message count.
StartSummaries(w) ==
    /\ workers[w].pc = "idle"
    /\ \E job \in queue :
        /\ job.kind = "summary"
        /\ queue' = queue \ {job}
        /\ IF SessionManager_should_generate_summary(sessions, summaries, job.session_id)
           THEN /\ workers' = [workers EXCEPT ![w] =
                      [Idle EXCEPT !.job = job, !.pc = "create",
                           !.summary = generate_conversation_summary(sessions, job.session_id),
                           !.count = get_message_count(sessions, job.session_id)]]
                /\ done' = done
           ELSE /\ workers' = workers
                /\ done' = done \cup {job.task_id}
    /\ UNCHANGED <<deployment, response, txns, result, sessions, memories, dead, nextTask, faults, detected,
                 streams, on_turns, summaries>>

\* process_summaries, line 135: create_summary, then the task returns.
CreateSummary(w) ==
    /\ workers[w].pc = "create"
    /\ summaries' = create_summary(summaries, workers[w].job.session_id,
                                   workers[w].summary, workers[w].count)
    /\ workers' = [workers EXCEPT ![w] = Idle]
    /\ done' = done \cup {workers[w].job.task_id}
    /\ UNCHANGED <<deployment, response, txns, result, sessions, memories, queue, dead, nextTask, faults, detected,
                 streams, on_turns>>

NextSummaries ==
    \/ \E u \in Users : create_session(u)
    \/ \E s \in FacadeSessions, role \in {"user", "assistant"} : add_message(s, role)
    \/ \E s \in FacadeSessions : queue_summary_processing(s)
    \/ \E w \in Workers : StartSummaries(w)
    \/ \E w \in Workers : CreateSummary(w)

SpecSummaries == InitRetry /\ [][NextSummaries]_vars

\* ------------------------------------------------------- streamed turns
\* ChatService.chat_with_memory_stream up to the first chunk (lines 97-118):
\* the context is built and the completion stream is opened.
BeginStream(s, content) ==
    /\ deployment = "core"
    /\ CanChat(s)
    /\ streams[s].pc # "open"
    /\ streams' = [streams EXCEPT ![s] =
                      [pc |-> "open", message |-> content, full_response |-> 0]]
    /\ UNCHANGED <<deployment, response, txns, result, sessions, memories, queue, dead, workers, nextTask, faults,
                 detected, on_turns, summaries, done>>

\* One pass of the loop (lines 119-123): full_response += content; yield content
NextChunk(s) ==
    /\ streams[s].pc = "open"
    /\ streams[s].full_response < MaxChunks
    /\ streams' = [streams EXCEPT ![s].full_response = @ + 1]
    /\ UNCHANGED <<deployment, response, txns, result, sessions, memories, queue, dead, workers, nextTask, faults,
                 detected, on_turns, summaries, done>>

\* The client goes away while the generator is suspended at the yield of
\* line 123: the generator is closed there (GeneratorExit, which
\* `except Exception` does not catch) and nothing after the loop runs.
Disconnect(s) ==
    /\ streams[s].pc = "open"
    /\ streams[s].full_response >= 1
    /\ streams' = [streams EXCEPT ![s] = [NoStream EXCEPT !.pc = "cancelled"]]
    /\ UNCHANGED <<deployment, response, txns, result, sessions, memories, queue, dead, workers, nextTask, faults,
                 detected, on_turns, summaries, done>>

\* The completion stream is exhausted (lines 125-142): both messages are
\* stored, the topic detector runs, the final metadata is yielded.
EndStream(s, topic_changed, failAt, summary_ok) ==
    /\ streams[s].pc = "open"
    /\ streams[s].full_response >= 1
    /\ CanChat(s)
    /\ LET user_id == sessions[s].user_id
           stored == AppendTurn(sessions, s, streams[s].message)
           window == get_messages_since_count(stored, s,
                                              get_last_memory_processed_at(stored, s))
           n == Len(_extract_memories(window))
       IN /\ CanAllocate(n)
          /\ LET r == check_and_process_topic_change(stored, memories, user_id, s,
                                                     topic_changed, uuid4(n), failAt,
                                                     summary_ok)
             IN /\ sessions' = r.sessions
                /\ memories' = r.memories
                /\ detected' = IF topic_changed /\ Len(window) >= 2
                               THEN detected \cup {s} ELSE detected
          /\ on_turns' = [on_turns EXCEPT ![s] = Append(@, get_message_count(stored, s))]
    /\ streams' = [streams EXCEPT ![s] = [NoStream EXCEPT !.pc = "done"]]
    /\ UNCHANGED <<deployment, response, txns, result, queue, dead, workers, nextTask, faults, summaries, done>>

\* The sessions whose turns are streamed.
StreamSessions == {SessionOf["u1"]}

\* Memory processing and the summary call return in these turns.
NextStream ==
    \/ \E u \in Users : create_session(u)
    \/ \E s \in SessionIds, c \in Statements, t \in BOOLEAN :
          ChatService_chat_with_memory(s, c, t, 0, TRUE)
    \/ \E s \in StreamSessions, c \in Statements : BeginStream(s, c)
    \/ \E s \in StreamSessions : NextChunk(s)
    \/ \E s \in StreamSessions : Disconnect(s)
    \/ \E s \in StreamSessions, t \in BOOLEAN : EndStream(s, t, 0, TRUE)

InitStream == Init /\ deployment = "core"

SpecStream == InitStream /\ [][NextStream]_vars

\* ------------------------------------------------------- topic detection
\* What the LLM call of the detector does: it answers, or it raises.
TopicAnswers == {"true", "false", "raises"}

\* A detector that takes a failed call for a change of topic.
detect_topic_change_fail_open(messages, answer) ==
    IF Len(messages) < 2 THEN FALSE ELSE answer # "false"

\* TopicDetector.detect_topic_change: fewer than two messages are no change
\* (lines 88-89); the parsed answer is returned (lines 91-102); any
\* exception of the call is logged and answered with False (lines 105-107).
detect_topic_change(messages, answer) ==
    IF Len(messages) < 2 THEN FALSE ELSE answer = "true"

\* ChatService.chat_with_memory with the outcome of the detector's LLM call
\* made explicit; the outcome of the call is kept in result.
detect_turn(s, content, answer, failAt, summary_ok) ==
    /\ CanChat(s)
    /\ LET stored == AppendTurn(sessions, s, content)
           unprocessed == get_messages_since_count(stored, s,
                              get_last_memory_processed_at(stored, s))
       IN chat_with_memory(s, content, detect_topic_change(unprocessed, answer),
                           failAt, summary_ok)
    /\ result' = [call |-> "detect_topic_change", id |-> Len(sessions[s].messages) + 2,
                  error |-> IF answer = "raises" THEN "Exception" ELSE "none"]

NextDetect ==
    \/ \E u \in Users : create_session(u)
    \/ \E s \in SessionIds, c \in Statements, a \in TopicAnswers, ok \in BOOLEAN :
          detect_turn(s, c, a, 0, ok)
    \/ \E u \in Users : delete_all(u)

InitDetect == Init /\ deployment = "core"

SpecDetect == InitDetect /\ [][NextDetect]_vars

\* SessionManager.add_message_to_session called on its own: one message.
add_message_to_session_call(s, role, content) ==
    /\ s \in DOMAIN sessions
    /\ Len(sessions[s].messages) < MaxMessages
    /\ sessions' = add_message_to_session(sessions, s, role, content)
    /\ UNCHANGED <<deployment, response, txns, result, memories, queue, dead, workers,
                 nextTask, faults, detected, streams, on_turns, summaries, done>>

\* The number under which result names a session.
SessionNo(s) == IF s = SessionOf["u1"] THEN 1 ELSE 2

\* TopicDetector.check_and_process_topic_change on a session as it is; result
\* keeps the verdict of the gate, and under "Ready" with at least two
\* messages the detector's LLM was asked.
check_topic_change(s, answer, summary_ok) ==
    /\ s \in DOMAIN sessions
    /\ LET user_id == sessions[s].user_id
           unprocessed == get_messages_since_count(sessions, s,
                              get_last_memory_processed_at(sessions, s))
           n == Len(_extract_memories(unprocessed))
       IN /\ CanAllocate(n)
          /\ LET r == check_and_process_topic_change(sessions, memories, user_id, s,
                          detect_topic_change(unprocessed, answer), uuid4(n), 0,
                          summary_ok)
             IN /\ sessions' = r.sessions
                /\ memories' = r.memories
    /\ result' = [call |-> "check_and_process_topic_change", id |-> SessionNo(s),
                  error |-> Gate(sessions, s)]
    /\ UNCHANGED <<deployment, response, txns, queue, dead, workers,
                 nextTask, faults, detected, streams, on_turns, summaries, done>>

NextGate ==
    \/ \E u \in Users : create_session(u)
    \/ \E s \in SessionIds : add_message_to_session_call(s, "user", <<"name", "John">>)
    \/ \E s \in SessionIds, a \in TopicAnswers : check_topic_change(s, a, TRUE)

SpecGate == InitDetect /\ [][NextGate]_vars

\* --------------------------------------------------------- delete_session
\* What the database does with the foreign key summaries.session_id ->
\* sessions.session_id (models/summary.py line 11, no ON DELETE rule) when a
\* referenced session row is deleted: it rejects the delete, or it does
\* not enforce the key.
ForeignKeys == {"enforced", "ignored"}

\* SessionManager.delete_session (lines 185-205): db.delete(session) takes
\* the rows of the messages relationship with it (cascade "all,
\* delete-orphan", models/session.py line 24); Session has no relationship
\* to Summary, so no statement touches the summaries table. An exception
\* of the commit is rolled back and answered with False.
delete_session(s, fk) ==
    /\ \A j \in queue : j.session_id # s
    /\ \A w \in Workers : workers[w].pc = "idle" \/ workers[w].job.session_id # s
    /\ IF s \notin DOMAIN sessions \/ (summaries[s] # <<>> /\ fk = "enforced")
       THEN /\ sessions' = sessions
            /\ result' = [call |-> "delete_session", id |-> SessionNo(s), error |-> "False"]
       ELSE /\ sessions' = [x \in DOMAIN sessions \ {s} |-> sessions[x]]
            /\ result' = [call |-> "delete_session", id |-> SessionNo(s), error |-> "none"]
    /\ UNCHANGED <<deployment, response, txns, memories, queue, dead, workers, nextTask,
                 faults, detected, streams, on_turns, summaries, done>>

NextDelete ==
    \/ \E u \in Users : create_session(u)
    \/ \E s \in FacadeSessions : add_message(s, "user")
    \/ \E s \in FacadeSessions : queue_summary_processing(s)
    \/ StartSummaries("w1")
    \/ CreateSummary("w1")
    \/ \E s \in SessionIds, fk \in ForeignKeys : delete_session(s, fk)

SpecDelete == InitRetry /\ [][NextDelete]_vars

\* -------------------------------------------------- get_or_create_session
\* SessionManager.get_or_create_session (lines 311-332): a session_id that
\* get_session finds is returned as it is (get_session filters by
\* session_id only, lines 60-62); without one, or with one that is not
\* found, a session is created for user_id. result keeps the id returned.
get_or_create_session(user_id, session_id) ==
    /\ IF session_id # "none" /\ session_id \in DOMAIN sessions
       THEN /\ sessions' = sessions
            /\ result' = [call |-> "get_or_create_session", id |-> SessionNo(session_id),
                          error |-> "none"]
       ELSE /\ SessionOf[user_id] \notin DOMAIN sessions
            /\ sessions' = [x \in DOMAIN sessions \cup {SessionOf[user_id]} |->
                              IF x = SessionOf[user_id] THEN Session(user_id)
                              ELSE sessions[x]]
            /\ result' = [call |-> "get_or_create_session",
                          id |-> SessionNo(SessionOf[user_id]), error |-> "none"]
    /\ UNCHANGED <<deployment, response, txns, memories, queue, dead, workers, nextTask,
                 faults, detected, streams, on_turns, summaries, done>>

NextGetOrCreate ==
    \/ \E u \in Users, s \in SessionIds \cup {"none"} : get_or_create_session(u, s)
    \/ \E s \in SessionIds, c \in Statements : add_message_to_session_call(s, "user", c)

SpecGetOrCreate == InitDetect /\ [][NextGetOrCreate]_vars

\* -------------------------------------------------------- knowledge graph
\* What the sidecar does with POST /api/v1/save: it answers 200, it answers
\* another status, or the request raises.
KnowledgeGraphAnswers == {"200", "500", "raises"}

\* KnowledgeGraphClient.save_personal_memory: the answer of a 200, None for
\* any other status and for any exception of the request (lines 44-62).
save_personal_memory(answer) ==
    IF answer = "200" THEN "result" ELSE "None"

\* A save neither the client nor the task guards.
save_to_knowledge_graph_unguarded(answer) ==
    IF answer = "200" THEN "returned" ELSE "raised"

\* The try block of the task around the save (worker_tasks.py lines 57-62):
\* the value of the client is dropped and an exception is logged.
save_to_knowledge_graph(answer) ==
    IF save_personal_memory(answer) \in {"result", "None"} THEN "returned" ELSE "logged"

\* The end of the worker's process_memories (worker_tasks.py lines 53-69):
\* the watermark is stored, the turn is sent to the knowledge graph and the
\* task returns {"status": "success"}; an exception that left the save
\* would reach the except clause of the task after the watermark was stored.
save_and_complete(w, answer) ==
    /\ workers[w].pc = "advance"
    /\ workers[w].job.kind = "memory"
    /\ LET job == workers[w].job
       IN /\ sessions' = update_last_memory_processed_at(sessions, job.session_id,
                                                         workers[w].count)
          /\ IF save_to_knowledge_graph(answer) = "raised"
             THEN /\ IF job.retries < max_retries
                     THEN /\ queue' = queue \cup {[job EXCEPT !.retries = @ + 1,
                                                               !.error = "Transient"]}
                          /\ dead' = dead
                     ELSE /\ dead' = dead \cup {[job EXCEPT !.error = "Transient"]}
                          /\ queue' = queue
                  /\ faults' = faults + 1
                  /\ done' = done
             ELSE /\ done' = done \cup {job.task_id}
                  /\ UNCHANGED <<queue, dead, faults>>
          /\ result' = [call |-> "save_personal_memory", id |-> job.task_id,
                        error |-> IF answer = "200" THEN "none" ELSE answer]
    /\ workers' = [workers EXCEPT ![w] = Idle]
    /\ UNCHANGED <<deployment, response, txns, memories, nextTask, detected,
                 streams, on_turns, summaries>>

NextGraph ==
    \/ \E u \in Users : create_session(u)
    \/ \E s \in FacadeSessions, c \in Statements : TiMemory_chat_with_memory(s, c)
    \/ \E w \in Workers, ok \in BOOLEAN : StartMemory(w, ok)
    \/ \E w \in Workers : Store(w, 0)
    \/ \E w \in Workers, a \in KnowledgeGraphAnswers : save_and_complete(w, a)

InitGraph == Init /\ deployment = "facade"

SpecGraph == InitGraph /\ [][NextGraph]_vars

\* ------------------------------------------------------- session guard
\* backend get_user_session(session_id, user_id): the exception it raises,
\* "none" when it returns the session. message keeps the words of the
\* message the handlers look for.
get_user_session(sess, session_id, user_id) ==
    IF session_id \notin DOMAIN sess
    THEN [exception |-> "DatabaseException", error_code |-> "SESSION_NOT_FOUND",
          message |-> "not found", session_owner |-> "none"]
    ELSE IF sess[session_id].user_id # user_id
    THEN [exception |-> "ValidationException", error_code |-> "SESSION_ACCESS_DENIED",
          message |-> "access denied", session_owner |-> sess[session_id].user_id]
    ELSE [exception |-> "none", error_code |-> "none", message |-> "none",
          session_owner |-> "none"]

database_exception_handler(exc) ==
    [status_code |-> 500, error_code |-> exc.error_code, session_owner |-> exc.session_owner]

validation_exception_handler(exc) ==
    [status_code |-> IF exc.message = "access denied" THEN 403
                     ELSE IF exc.message = "not found" THEN 404 ELSE 400,
     error_code |-> exc.error_code, session_owner |-> exc.session_owner]

\* What a caller of a guarded endpoint gets back.
SessionResponse(sess, session_id, user_id) ==
    LET exc == get_user_session(sess, session_id, user_id)
    IN CASE exc.exception = "DatabaseException" -> database_exception_handler(exc)
         [] exc.exception = "ValidationException" -> validation_exception_handler(exc)
         [] OTHER -> [status_code |-> 200, error_code |-> "none", session_owner |-> "none"]

\* ------------------------------------------------------ backend requests
NoException == [exception |-> "none", error_code |-> "none", message |-> "none",
                session_owner |-> "none"]

\* validate_chat_request -> validate_user_id_match(user_id, request.user_id)
validate_chat_request(user_id, request_user_id) ==
    IF request_user_id # user_id
    THEN [exception |-> "ValidationException", error_code |-> "USER_ID_MISMATCH",
          message |-> "mismatch", session_owner |-> "none"]
    ELSE NoException

\* What the body of an endpoint raises once the guards have passed.
Raised == {"none", "ChatException", "HTTPException", "Exception"}

Raise(kind) ==
    IF kind = "none" THEN NoException
    ELSE [exception |-> kind, error_code |-> "CHAT_ERROR", message |-> "error",
          session_owner |-> "none"]

chat_exception_handler(exc) ==
    [status_code |-> 500, error_code |-> exc.error_code, session_owner |-> exc.session_owner]

http_exception_handler(exc) ==
    [status_code |-> 400, error_code |-> "HTTP_ERROR", session_owner |-> "none"]

general_exception_handler(exc) ==
    [status_code |-> 500, error_code |-> "INTERNAL_ERROR", session_owner |-> "none"]

\* The exception classes main.py registers a handler for by name; their
\* handlers run inside call_next. The handler registered for Exception is
\* run by the server-error layer, outside every middleware.
HandledInside == {"DatabaseException", "ValidationException", "ChatException", "HTTPException"}

RequestIds == {"r1", "r2"}

\* RequestIDMiddleware.dispatch around the endpoint and the handlers.
\* request_id is the uuid4 of line 14. A handler that runs inside call_next
\* reads it from request.state and the response passes line 18. When the
\* endpoint raises any other exception, call_next raises, line 18 is not
\* reached and the answer of general_exception_handler carries no header;
\* state_id is what its getattr(request.state, 'request_id', uuid4())
\* yields there.
dispatch(request_id, state_id, exc) ==
    LET body == CASE exc.exception = "DatabaseException" -> database_exception_handler(exc)
                  [] exc.exception = "ValidationException" -> validation_exception_handler(exc)
                  [] exc.exception = "ChatException" -> chat_exception_handler(exc)
                  [] exc.exception = "HTTPException" -> http_exception_handler(exc)
                  [] exc.exception = "none" ->
                        [status_code |-> 200, error_code |-> "none", session_owner |-> "none"]
                  [] OTHER -> general_exception_handler(exc)
    IN [status_code |-> body.status_code, error_code |-> body.error_code,
        session_owner |-> body.session_owner,
        request_id |-> IF exc.exception = "none" THEN "none"
                       ELSE IF exc.exception \in HandledInside THEN request_id
                       ELSE state_id,
        x_request_id |-> IF exc.exception \in HandledInside \cup {"none"}
                         THEN request_id ELSE "none"]

\* A guard that opens a session for the caller instead of refusing.
refuse_after_create(exc, request_id, state_id) ==
    /\ response' = dispatch(request_id, state_id, exc)
    /\ \E u \in Users :
         /\ SessionOf[u] \notin DOMAIN sessions
         /\ sessions' = [x \in DOMAIN sessions \cup {SessionOf[u]} |->
                           IF x = SessionOf[u] THEN Session(u) ELSE sessions[x]]
    /\ UNCHANGED <<deployment, txns, result, memories, queue, dead, workers, nextTask, faults,
                 detected, streams, on_turns, summaries, done>>

\* A guard raised: the endpoint ends there and the handler answers.
refuse(exc, request_id, state_id) ==
    /\ response' = dispatch(request_id, state_id, exc)
    /\ UNCHANGED <<deployment, txns, result, sessions, memories, queue, dead, workers, nextTask,
                 faults, detected, streams, on_turns, summaries, done>>

\* backend ChatService.chat_with_memory on an existing session: the
\* completion is requested, both messages are stored and the turn is added
\* to the memory. raised: what the completion call raises.
chat_turn(user_id, session_id, content, request_id, state_id, raised, sess) ==
    IF raised # "none"
    THEN /\ response' = dispatch(request_id, state_id, Raise(raised))
         /\ sessions' = sess
         /\ memories' = memories
    ELSE /\ Len(sess[session_id].messages) + 2 <= MaxMessages
         /\ CanAllocate(Len(_extract_memories(TurnMessages(content))))
         /\ sessions' = AppendTurn(sess, session_id, content)
         /\ memories' = process_memories(memories, TurnMessages(content), user_id,
                            uuid4(Len(_extract_memories(TurnMessages(content)))), 0).store
         /\ response' = dispatch(request_id, state_id, NoException)

\* POST /{user_id}/{session_id}
continue_chat_session(user_id, request_user_id, session_id, content, request_id, state_id, raised) ==
    /\ deployment = "backend"
    /\ LET invalid == validate_chat_request(user_id, request_user_id)
           guarded == get_user_session(sessions, session_id, user_id)
       IN IF invalid.exception # "none" THEN refuse(invalid, request_id, state_id)
          ELSE IF guarded.exception # "none" THEN refuse(guarded, request_id, state_id)
          ELSE /\ chat_turn(user_id, session_id, content, request_id, state_id, raised,
                            sessions)
               /\ UNCHANGED <<deployment, txns, result, queue, dead, workers, nextTask, faults,
                            detected, streams, on_turns, summaries, done>>

\* POST /{user_id}/new: the session is created before the completion is
\* requested.
new_chat_session(user_id, request_user_id, content, request_id, state_id, raised) ==
    /\ deployment = "backend"
    /\ LET invalid == validate_chat_request(user_id, request_user_id)
           created == [x \in DOMAIN sessions \cup {SessionOf[user_id]} |->
                         IF x = SessionOf[user_id] THEN Session(user_id) ELSE sessions[x]]
       IN IF invalid.exception # "none" THEN refuse(invalid, request_id, state_id)
          ELSE /\ SessionOf[user_id] \notin DOMAIN sessions
               /\ chat_turn(user_id, SessionOf[user_id], content, request_id, state_id,
                            raised, created)
               /\ UNCHANGED <<deployment, txns, result, queue, dead, workers, nextTask, faults,
                            detected, streams, on_turns, summaries, done>>

NextBackend ==
    \/ \E u \in Users, ru \in Users, s \in SessionIds, c \in Statements,
          r \in RequestIds, sid \in RequestIds, x \in Raised :
          continue_chat_session(u, ru, s, c, r, sid, x)
    \/ \E u \in Users, ru \in Users, c \in Statements,
          r \in RequestIds, sid \in RequestIds, x \in Raised :
          new_chat_session(u, ru, c, r, sid, x)

InitBackend ==
    /\ deployment = "backend"
    /\ sessions = << >>
    /\ memories = << >>
    /\ queue = {}
    /\ dead = {}
    /\ workers = [w \in Workers |-> Idle]
    /\ nextTask = 1
    /\ faults = 0
    /\ detected = {}
    /\ streams = [s \in SessionIds |-> NoStream]
    /\ on_turns = [s \in SessionIds |-> <<>>]
    /\ summaries = [s \in SessionIds |-> <<>>]
    /\ done = {}
    /\ response = NoResponse
    /\ txns = [r \in Requests |-> NoTxn]
    /\ result = NoResult

SpecBackend == InitBackend /\ [][NextBackend]_vars

\* ------------------------------------------------- backend session append
\* settings.max_session_messages (config.py line 53: 20 unless the
\* environment sets MAX_SESSION_MESSAGES), scaled down.
max_session_messages == 3

\* A rotation that keeps the oldest messages.
rotate_keeping_oldest(messages) ==
    IF Len(messages) > max_session_messages
    THEN SubSeq(messages, 1, max_session_messages)
    ELSE messages

\* SessionService.add_message_to_session, lines 148-152:
\* messages = messages[-self.max_messages:] when the list is over the limit.
rotate(messages) ==
    IF Len(messages) > max_session_messages
    THEN SubSeq(messages, Len(messages) - max_session_messages + 1, Len(messages))
    ELSE messages

\* How the database ends the second of two transactions that wrote the
\* same row: it applies the write, or it reports a write conflict.
Commits == {"commit", "conflict"}

\* SessionService.add_message_to_session, lines 129-151: the row of the
\* session is read, the message is appended to the list that was read and
\* the list is cut to the newest max_session_messages.
BeginAppend(r, session_id, role, content) ==
    /\ deployment = "backend"
    /\ txns[r].pc = "idle"
    /\ session_id \in DOMAIN sessions
    /\ Len(sessions[session_id].messages) < MaxMessages
    /\ LET messages == Append(sessions[session_id].messages, Message(role, content))
       IN txns' = [txns EXCEPT ![r] =
                     [pc |-> "read", session_id |-> session_id,
                      messages |-> rotate(messages)]]
    /\ UNCHANGED <<deployment, response, result, sessions, memories, queue, dead, workers,
                 nextTask, faults, detected, streams, on_turns, summaries, done>>

\* Lines 153-169: the list is written back with message_count = len(messages)
\* and the transaction commits (True); an exception of the commit is
\* rolled back and answered with False. No lock is taken between the read
\* and the write: a row written in between is overwritten, or the commit
\* fails on the conflict.
CommitAppend(r, outcome) ==
    /\ txns[r].pc = "read"
    /\ LET s == txns[r].session_id
           read == SubSeq(txns[r].messages, 1, Len(txns[r].messages) - 1)
       IN IF outcome = "commit"
          THEN /\ sessions' = [sessions EXCEPT ![s].messages = txns[r].messages]
               /\ txns' = [txns EXCEPT ![r].pc = "committed"]
          ELSE /\ sessions[s].messages # read
               /\ sessions' = sessions
               /\ txns' = [txns EXCEPT ![r].pc = "failed"]
    /\ UNCHANGED <<deployment, response, result, memories, queue, dead, workers,
                 nextTask, faults, detected, streams, on_turns, summaries, done>>

NextAppend ==
    \/ \E u \in Users : create_session(u)
    \/ \E r \in Requests, s \in SessionIds, role \in {"user", "assistant"}, c \in Statements :
          BeginAppend(r, s, role, c)
    \/ \E r \in Requests, o \in Commits : CommitAppend(r, o)

SpecAppend == InitBackend /\ [][NextAppend]_vars

\* SessionService.add_message_to_session run on its own (lines 125-169): an
\* unknown session is answered with False; otherwise the message is
\* appended, the list rotated and written back with message_count =
\* len(messages). result keeps the count written and whether the list was cut.
SessionService_add_message_to_session(session_id, role, content) ==
    /\ deployment = "backend"
    /\ IF session_id \notin DOMAIN sessions
       THEN /\ sessions' = sessions
            /\ result' = [call |-> "add_message_to_session", id |-> 0, error |-> "False"]
       ELSE LET appended == Append(sessions[session_id].messages, Message(role, content))
                messages == rotate(appended)
            IN /\ sessions' = [sessions EXCEPT ![session_id].messages = messages]
               /\ result' = [call |-> "add_message_to_session", id |-> Len(messages),
                             error |-> IF Len(appended) > max_session_messages
                                       THEN "rotated" ELSE "none"]
    /\ UNCHANGED <<deployment, response, txns, memories, queue, dead, workers,
                 nextTask, faults, detected, streams, on_turns, summaries, done>>

NextRotate ==
    \/ \E u \in Users : create_session(u)
    \/ \E s \in SessionIds, role \in {"user", "assistant"} :
          SessionService_add_message_to_session(s, role, NoFact)

SpecRotate == InitBackend /\ [][NextRotate]_vars

\* ------------------------------------------------------- backend streaming
\* The backend's ChatService.chat_with_memory_stream run to the end of the
\* generator (lines 48-108): the user message is stored before the
\* completion is requested (line 73), the reply and the memories after the
\* last chunk (lines 90-96). An exception of the completion (fails) leaves
\* the try block for the error event (lines 105-108).
backend_chat_with_memory_stream(s, content, fails) ==
    /\ deployment = "backend"
    /\ s \in DOMAIN sessions
    /\ Len(sessions[s].messages) + 2 <= MaxMessages
    /\ IF fails
       THEN /\ sessions' = add_message_to_session(sessions, s, "user", content)
            /\ memories' = memories
       ELSE /\ CanAllocate(Len(_extract_memories(TurnMessages(content))))
            /\ sessions' = AppendTurn(sessions, s, content)
            /\ memories' = process_memories(memories, TurnMessages(content),
                               sessions[s].user_id,
                               uuid4(Len(_extract_memories(TurnMessages(content)))), 0).store
    /\ result' = [call |-> "chat_with_memory_stream", id |-> SessionNo(s),
                  error |-> IF fails THEN "error" ELSE "none"]
    /\ UNCHANGED <<deployment, response, txns, queue, dead, workers, nextTask, faults,
                 detected, streams, on_turns, summaries, done>>

NextBackendStream ==
    \/ \E u \in Users : create_session(u)
    \/ \E s \in SessionIds, c \in Statements, fails \in BOOLEAN :
          backend_chat_with_memory_stream(s, c, fails)

SpecBackendStream == InitBackend /\ [][NextBackendStream]_vars

\* ----------------------------------------------------- direct store calls
\* An argument left at its default None.
None == <<>>

NoAttributes == [type |-> "None", status |-> "None"]

\* TiDB.update_memory(id, vector, content, memory_attributes): the
\* arguments that are not None are assigned and committed; an absent id
\* is logged as a warning and the method returns.
TiDB_update_memory(mems, id, vector, content, memory_attributes) ==
    IF id \in DOMAIN mems
    THEN [mems EXCEPT ![id] =
            [@ EXCEPT !.vector = IF vector # None THEN vector ELSE @,
                      !.content = IF content # None THEN content ELSE @,
                      !.memory_attributes = IF memory_attributes # NoAttributes
                                            THEN memory_attributes ELSE @]]
    ELSE mems

\* The ids a client names in its own calls of the store.
StoreIds == {1, 2}

\* TiDB.insert_memory called with an id: the exception of the commit is
\* raised again after the rollback.
InsertMemory(id, user_id, content, status) ==
    /\ IF insert_memory_ok(memories, id)
       THEN /\ memories' = insert_memory(memories, embed(content), user_id, content,
                                         MemoryAttributes(TypeOf(content), status), id)
            /\ result' = [call |-> "insert_memory", id |-> id, error |-> "none"]
       ELSE /\ memories' = memories
            /\ result' = [call |-> "insert_memory", id |-> id, error |-> "IntegrityError"]
    /\ UNCHANGED <<deployment, response, txns, sessions, queue, dead, workers, nextTask,
                 faults, detected, streams, on_turns, summaries, done>>

\* TiDB.update_memory called by a client: it returns None in every case.
UpdateMemory(id, vector, content, memory_attributes) ==
    /\ memories' = TiDB_update_memory(memories, id, vector, content, memory_attributes)
    /\ result' = [call |-> "update_memory", id |-> id, error |-> "none"]
    /\ UNCHANGED <<deployment, response, txns, sessions, queue, dead, workers, nextTask,
                 faults, detected, streams, on_turns, summaries, done>>

NextStore ==
    \/ \E i \in StoreIds, u \in Users, c \in Contents, st \in {"active", "outdated"} :
          InsertMemory(i, u, c, st)
    \/ \E i \in StoreIds, v \in {None} \cup {embed(c) : c \in Contents},
          c \in {None} \cup Contents,
          a \in {NoAttributes} \cup {MemoryAttributes("personal", st) :
                                        st \in {"active", "outdated"}} :
          UpdateMemory(i, v, c, a)

InitStore == Init /\ deployment = "core"

SpecStore == InitStore /\ [][NextStore]_vars

\* ------------------------------------------------------------------ claims
Queries == Contents
Limits == 1..MaxK
Status(id) == memories[id].memory_attributes.status
Watermark(s) == sessions[s].last_memory_processed_at
SummaryWatermark(s) == sessions[s].last_summary_generated_at
Running == {workers[w].job : w \in {x \in Workers : workers[x].pc # "idle"}}

\* C1: every memory returned by search(query, user_id, k) has status
\* active; an outdated memory is never returned.
C1_SearchReturnsOnlyActive ==
    \A u \in Users, q \in Queries, k \in Limits :
        LET found == search(memories, q, u, k)
        IN \A i \in 1..Len(found) : found[i].memory_attributes.status = "active"

\* The records a step creates, removes or changes, and the user a step acts for.
TouchedIds ==
    {i \in DOMAIN memories \cup DOMAIN memories' :
        \/ i \notin DOMAIN memories
        \/ i \notin DOMAIN memories'
        \/ memories'[i] # memories[i]}

OwnerOfTouched(i) ==
    IF i \in DOMAIN memories THEN memories[i].user_id ELSE memories'[i].user_id

ActsFor(u) ==
    \/ \E w \in Workers : /\ workers'[w] # workers[w]
                          /\ workers[w].pc = "store"
                          /\ workers[w].job.user_id = u
    \/ /\ workers' = workers
       /\ \E s \in DOMAIN sessions : sessions'[s] # sessions[s] /\ sessions[s].user_id = u
    \/ /\ workers' = workers
       /\ sessions' = sessions

C2_SearchScoped ==
    \A u \in Users, q \in Queries, k \in Limits :
        LET found == search(memories, q, u, k)
        IN \A i \in 1..Len(found) : found[i].user_id = u

C2_WritesScoped ==
    TouchedIds # {} =>
        \E u \in Users : ActsFor(u) /\ \A i \in TouchedIds : OwnerOfTouched(i) = u

C3_Step ==
    \A s \in DOMAIN sessions :
        /\ s \in DOMAIN sessions'
        /\ sessions'[s].last_memory_processed_at >= Watermark(s)
        /\ \A w \in Workers :
              (/\ workers[w].pc = "advance"
               /\ workers'[w].pc = "idle"
               /\ workers[w].job.kind = "memory"
               /\ workers[w].job.session_id = s)
              => sessions'[s].last_memory_processed_at = Max(Watermark(s), workers[w].count)

\* C3: last_memory_processed_at never decreases; an advance to a lower
\* value changes nothing and an advance to a higher value is stored, so
\* the watermark ends at the maximum of the values written.
C3_WatermarkMonotonic == [][C3_Step]_vars

C3_Witness ==
    \E w \in Workers :
        /\ workers[w].pc = "advance"
        /\ workers[w].job.kind = "memory"
        /\ workers[w].count > 0
        /\ workers[w].count < Watermark(workers[w].job.session_id)

\* C4: both watermarks of every session are at most its message count.
C4_WatermarksBounded ==
    \A s \in DOMAIN sessions :
        /\ Watermark(s) <= Len(sessions[s].messages)
        /\ SummaryWatermark(s) <= Len(sessions[s].messages)

C4_Witness ==
    \E s \in DOMAIN sessions :
        /\ Watermark(s) > 0
        /\ SummaryWatermark(s) > 0
        /\ Watermark(s) < Len(sessions[s].messages)

\* The extraction tasks of a session, wherever they are.
MemoryTasks(s) ==
    {j \in queue \cup dead \cup Running : j.kind = "memory" /\ j.session_id = s}

\* C5: while the topic detector has never answered true for a session, no
\* extraction task of that session exists and its last_memory_processed_at
\* is 0.
C5_NoTopicChangeNoExtraction ==
    \A s \in DOMAIN sessions :
        s \notin detected => Watermark(s) = 0 /\ MemoryTasks(s) = {}

\* What a step that changes a watermark of a session must be.
C6_Step ==
    \A s \in DOMAIN sessions :
        (\/ sessions'[s].last_memory_processed_at # Watermark(s)
         \/ sessions'[s].last_summary_generated_at # SummaryWatermark(s))
        => \E w \in Workers : /\ workers[w].pc = "advance"
                              /\ workers[w].job.session_id = s
                              /\ workers'[w].pc = "idle"

\* C6: a watermark changes only in the last step of a worker's successful
\* task execution, never inside the chat request.
C6_OnlyWorkersAdvance == [][C6_Step]_vars

\* What a step in which a task execution raised must leave behind.
Requeued(j) ==
    \E j0 \in queue \cup Running :
        [j EXCEPT !.error = j0.error] = [j0 EXCEPT !.retries = j0.retries + 1]

C7_Step ==
    faults' # faults =>
        /\ sessions' = sessions
        /\ \A j \in queue' \ queue : Requeued(j)
        /\ \A j \in dead' \ dead :
              \E j0 \in queue \cup Running : [j EXCEPT !.error = j0.error] = j0

\* C7: a task execution that raises leaves every watermark (and summary)
\* as it was, and the task returns to the broker with the same window or
\* is dead-lettered.
C7_FailureKeepsWatermark == [][C7_Step]_vars

C7_Witness ==
    \E j \in queue :
        /\ j.kind = "memory"
        /\ j.retries >= 1
        /\ Watermark(j.session_id) < Len(sessions[j.session_id].messages)

\* A store without its ids: how many records of each kind it holds.
Unnamed(m) ==
    [user_id |-> m.user_id, content |-> m.content, vector |-> m.vector,
     memory_attributes |-> m.memory_attributes]

View(mems) ==
    [r \in {Unnamed(mems[i]) : i \in DOMAIN mems} |->
        Cardinality({i \in DOMAIN mems : Unnamed(mems[i]) = r})]

FirstIds == <<MaxIds + 1, MaxIds + 2>>
SecondIds == <<MaxIds + 3, MaxIds + 4>>

\* C8: running process_memories again on the same window - after a
\* complete run or after a run that raised part-way - leaves the store as
\* one complete run leaves it (records compared without their ids).
C8_ExtractionIdempotent ==
    \A u \in Users, win \in Windows :
        LET once == process_memories(memories, win, u, FirstIds, 0).store
        IN \A f \in 0..MaxFailPoint :
              LET first == process_memories(memories, win, u, FirstIds, f).store
                  again == process_memories(first, win, u, SecondIds, 0).store
              IN View(again) = View(once)

C8_Witness ==
    \E u \in Users :
        /\ UserFilter(memories, u) # {}
        /\ \A i \in UserFilter(memories, u) : Status(i) = "outdated"
        /\ \E win \in Windows :
              process_memories(memories, win, u, FirstIds, 0).store # memories

\* C9: no user has two memory records with identical content.
C9_NoDuplicateContent ==
    \A i \in DOMAIN memories, j \in DOMAIN memories :
        (i # j /\ memories[i].user_id = memories[j].user_id)
            => memories[i].content # memories[j].content

\* The active memories of a user for a fact, and those a candidate corrects.
ActiveOfFact(mems, u, fact) ==
    {i \in DOMAIN mems : /\ mems[i].user_id = u
                         /\ mems[i].content[1] = fact
                         /\ mems[i].memory_attributes.status = "active"}

Corrected(u, c) ==
    {i \in ActiveOfFact(memories, u, c.content[1]) : memories[i].content # c.content}

C10_Step ==
    \A w \in Workers :
        (workers[w].pc = "store" /\ workers'[w].pc = "advance") =>
            \A k \in 1..Len(workers[w].new) :
                LET c == workers[w].new[k]
                    u == workers[w].job.user_id
                IN Corrected(u, c) # {} =>
                     /\ \A i \in Corrected(u, c) :
                           /\ i \in DOMAIN memories'
                           /\ memories'[i].content = memories[i].content
                           /\ memories'[i].memory_attributes.status = "outdated"
                     /\ c.id \in DOMAIN memories'
                     /\ memories'[c.id].content = c.content
                     /\ ActiveOfFact(memories', u, c.content[1]) = {c.id}

\* C10: when the writes of an extraction succeed and its candidate corrects
\* an active memory of the user, that memory keeps its id and content and
\* is outdated, the candidate is stored as active, and it is the only
\* active memory for the fact.
C10_CorrectionSupersedes == [][C10_Step]_vars

\* The write phase run on one consolidated entry of the owner of record i.
Entry(id, content, status) ==
    MemoryConsolidationItem(id, content, MemoryAttributes(TypeOf(content), status))

Written(mems, u, entry) == _store_memories(mems, <<entry>>, u, 0)

\* C11: the write phase applies an entry by its status and id: outdated ->
\* the record with that id is updated and keeps its id; active with an id
\* that is not stored -> the entry is inserted; active with an id that is
\* stored -> the record is updated with the new content and vector and no
\* record is added.
C11_WritePhaseRule ==
    \A i \in DOMAIN memories, c \in Contents :
        LET u == memories[i].user_id
            outdated == Written(memories, u, Entry(i, memories[i].content, "outdated"))
            fresh == Written(memories, u, Entry(MaxIds + 1, c, "active"))
            stored == Written(memories, u, Entry(i, c, "active"))
        IN /\ outdated.ok
           /\ DOMAIN outdated.store = DOMAIN memories
           /\ outdated.store[i].memory_attributes.status = "outdated"
           /\ fresh.ok
           /\ DOMAIN fresh.store = DOMAIN memories \cup {MaxIds + 1}
           /\ fresh.store[MaxIds + 1].content = c
           /\ stored.ok
           /\ DOMAIN stored.store = DOMAIN memories
           /\ stored.store[i].content = c
           /\ stored.store[i].vector = embed(c)

\* The tasks the broker has handed out so far, and the attempts on one task.
Pending == queue \cup Running

\* C12: a task whose execution raises goes back to the broker at most
\* max_retries times, so no more than max_retries + 1 executions of one
\* task raise; after the last one the task is dead-lettered with the
\* exception it raised and is neither queued nor running again.
C12_RetriesBounded ==
    /\ \A j \in Pending : j.retries <= max_retries
    /\ faults <= (max_retries + 1) * (nextTask - 1)
    /\ \A j \in dead :
          /\ j.retries = max_retries
          /\ j.error \in Exceptions
          /\ \A k \in Pending : k.task_id # j.task_id

C12_Witness ==
    \E j \in dead : j.retries = max_retries /\ faults >= max_retries + 1

\* C13: only a task that failed with a Transient error goes back to the
\* broker; a task that failed with any other error is dead-lettered at
\* once, so no queued or running task carries such an error.
C13_OnlyTransientRetried ==
    \A j \in Pending : j.error # "Permanent"

\* The tasks handed to the broker so far and where a task can be.
Enqueued == 1..(nextTask - 1)
PendingIds == {j.task_id : j \in Pending}
DeadIds == {j.task_id : j \in dead}

Turn(s) == Len(sessions'[s].messages) = Len(sessions[s].messages) + 2

NewJobs(s, kind) == {j \in queue' \ queue : j.kind = kind /\ j.session_id = s}

ExtractionDispatched(s) ==
    \/ NewJobs(s, "memory") # {}
    \/ sessions'[s].last_memory_processed_at # Watermark(s)

SummaryDue(s) ==
    Len(sessions'[s].messages) - SummaryWatermark(s) >= summary_threshold

C15_Step ==
    \A s \in DOMAIN sessions :
        Turn(s) => (NewJobs(s, "summary") # {} <=> ExtractionDispatched(s) /\ SummaryDue(s))

\* C15: a chat turn puts a summary task on the broker exactly when it
\* dispatched the extraction and the messages since the last summary
\* reach summary_threshold; in every other case it enqueues none.
C15_SummaryEnqueuedWhenDue == [][C15_Step]_vars

\* C16: with no prior summary the first summary is not produced before the
\* session holds message_limit messages; once one is produced the
\* summary watermark is at least message_limit and the summary is not
\* empty.
C16_FirstSummaryAtLimit ==
    \A s \in DOMAIN sessions :
        SummaryWatermark(s) > 0 =>
            /\ SummaryWatermark(s) >= message_limit
            /\ get_session_summary(sessions, s) # 0

\* The highest watermark among the summaries stored for a session.
HighestWatermark(rows, s) ==
    LET marks == {0} \cup {rows[s][i].message_count_at_creation : i \in 1..Len(rows[s])}
    IN CHOOSE m \in marks : \A n \in marks : n <= m

C17_Step ==
    \A s \in SessionIds :
        /\ get_latest_summary(summaries', s).message_count_at_creation
               >= get_latest_summary(summaries, s).message_count_at_creation
        /\ get_latest_summary(summaries', s).message_count_at_creation
               = HighestWatermark(summaries', s)

\* C17: the watermark of the current summary never decreases and the
\* current summary is the one stored with the highest watermark, also
\* when two summary tasks of a session complete out of order.
C17_SummaryMonotonic == [][C17_Step]_vars

C18_Step ==
    \A s \in DOMAIN sessions :
        streams[s].pc = "open" /\ streams'[s].pc = "cancelled" =>
            LET n == Len(sessions[s].messages)
                stored == sessions'[s].messages
            IN /\ Len(stored) = n + 2
               /\ stored[n + 1] = Message("user", streams[s].message)
               /\ stored[n + 2].role = "assistant"
               /\ on_turns'[s] # on_turns[s]

\* C18: when the client disconnects after some chunks of a streamed turn
\* were emitted, the user message and the assistant text emitted so far
\* are appended to the session and the topic detector is invoked.
C18_DisconnectStillStores == [][C18_Step]_vars

C19_Step ==
    \A s \in DOMAIN sessions :
        LET n == Len(sessions[s].messages)
            stored == sessions'[s].messages
        IN /\ Len(stored) # n => on_turns'[s] # on_turns[s]
           /\ on_turns'[s] # on_turns[s] =>
                 /\ Len(stored) = n + 2
                 /\ stored[n + 1].role = "user"
                 /\ stored[n + 2] = Message("assistant", NoFact)
                 /\ on_turns'[s] = Append(on_turns[s], n + 2)

C20_MissingAndForeignAlike ==
    \A u \in Users, missing \in SessionIds \ DOMAIN sessions, foreign \in DOMAIN sessions :
        sessions[foreign].user_id # u =>
            /\ SessionResponse(sessions, missing, u) = SessionResponse(sessions, foreign, u)
            /\ SessionResponse(sessions, foreign, u).status_code = 404
            /\ SessionResponse(sessions, foreign, u).session_owner = "none"

\* The error codes of a chat request that validation refused.
Refusals == {"USER_ID_MISMATCH", "SESSION_NOT_FOUND", "SESSION_ACCESS_DENIED"}

C21_Step ==
    response' # response /\ response'.error_code \in Refusals =>
        /\ sessions' = sessions
        /\ memories' = memories
        /\ queue' = queue
        /\ nextTask' = nextTask

\* C21: a chat request refused by validation (user_id mismatch, unknown
\* or foreign session) creates no session, appends no message, writes no
\* memory and enqueues no task.
C21_RefusedHasNoEffect == [][C21_Step]_vars

C21_Witness ==
    /\ response.error_code = "SESSION_ACCESS_DENIED"
    /\ \E s \in DOMAIN sessions : Len(sessions[s].messages) >= 2

\* C29: in every HTTP error response the request_id of the body equals the
\* X-Request-ID header of that response.
C29_RequestIdMatchesHeader ==
    response.status_code >= 400 => response.request_id = response.x_request_id

C22_Step ==
    \A u \in Users :
        UserFilter(memories, u) # {} /\ memories' = delete_all_memories(memories, u) =>
            /\ UserFilter(memories', u) = {}
            /\ \A q \in Queries, k \in Limits : search(memories', q, u, k) = <<>>

\* C22: once delete_all(user_id) has returned the store holds no record
\* of that user, so every search for the user with any query and any
\* limit is empty as long as nothing is inserted for the user.
C22_DeleteAllEmptiesSearch ==
    /\ [][C22_Step]_vars
    /\ [](\A u \in Users : UserFilter(memories, u) = {} =>
              \A q \in Queries, k \in Limits : search(memories, q, u, k) = <<>>)

C22_Witness ==
    \E s \in DOMAIN sessions :
        /\ Watermark(s) >= 2
        /\ sessions[s].messages[1].content \in Contents
        /\ UserFilter(memories, sessions[s].user_id) = {}
        /\ \E i \in DOMAIN memories : memories[i].user_id # sessions[s].user_id

\* A step made by a direct call of a store method on id i.
Called(call, i) == result' # result /\ result'.call = call /\ result'.id = i

C23_Step ==
    \A i \in StoreIds :
        Called("insert_memory", i) /\ i \in DOMAIN memories =>
            /\ result'.error # "none"
            /\ memories' = memories

\* C23: an insert of a memory whose id is already stored raises and
\* leaves the stored record and the rest of the store as they were.
C23_InsertConflictFails == [][C23_Step]_vars

C23_Witness ==
    /\ result.call = "insert_memory"
    /\ result.error = "IntegrityError"
    /\ result.id \in DOMAIN memories

C24_Step ==
    \A i \in StoreIds :
        Called("update_memory", i) =>
            IF i \notin DOMAIN memories
            THEN result'.error = "NotFound" /\ memories' = memories
            ELSE /\ DOMAIN memories' = DOMAIN memories
                 /\ \A j \in DOMAIN memories \ {i} : memories'[j] = memories[j]
                 /\ memories'[i].user_id = memories[i].user_id

\* C24: an update of an id that is not stored raises NotFound to its
\* caller and creates no record; an update of a stored id leaves every
\* other record and the fields it was not given unchanged.
C24_UpdateAbsentFails == [][C24_Step]_vars

\* C25: a record with status outdated keeps its content and its vector
\* under every later write of the pipeline, also when a later
\* consolidation output names its id again.
C25_OutdatedFrozen ==
    \A i \in DOMAIN memories, c \in Contents :
        Status(i) = "outdated" =>
            LET later == Written(memories, memories[i].user_id, Entry(i, c, "outdated")).store
            IN /\ later[i].content = memories[i].content
               /\ later[i].vector = memories[i].vector

\* A worker took the memory task j off the broker and the extraction call
\* of process_memories raised (the parse of the LLM output failed).
ExtractionRaised(j) ==
    /\ j \in queue
    /\ j.kind = "memory"
    /\ j \notin queue'
    /\ faults' = faults + 1

\* C26: when the extractor's LLM output is not valid structured JSON the
\* extraction counts as empty: process_memories writes no memory and
\* raises nothing to its caller, so the task is neither retried nor failed.
C26_Step ==
    \A j \in queue :
        ExtractionRaised(j) =>
            /\ memories' = memories
            /\ \A k \in queue' \cup dead' : k.task_id # j.task_id

C26_InvalidExtractionIsEmpty == [][C26_Step]_vars

\* The turn of session s in which the detector's LLM call raised.
DetectorRaised(s) ==
    /\ s \in DOMAIN sessions
    /\ Turn(s)
    /\ result'.call = "detect_topic_change"
    /\ result'.error = "Exception"

\* C27: the topic detector fails closed: when its LLM call raises, the
\* turn enqueues no job, writes no memory and leaves both watermarks of the
\* session unchanged.
C27_Step ==
    \A s \in SessionIds :
        DetectorRaised(s) =>
            /\ queue' = queue
            /\ memories' = memories
            /\ sessions'[s].last_memory_processed_at = Watermark(s)
            /\ sessions'[s].last_summary_generated_at = SummaryWatermark(s)

C27_DetectorFailsClosed == [][C27_Step]_vars

\* The detector raised in a turn that left a window with a fact unprocessed.
C27_Witness ==
    /\ result.call = "detect_topic_change"
    /\ result.error = "Exception"
    /\ \E s \in DOMAIN sessions :
          /\ Len(sessions[s].messages) = result.id
          /\ Watermark(s) < Len(sessions[s].messages)
          /\ \E n \in 1..Len(sessions[s].messages) :
                sessions[s].messages[n].content \in Contents

\* Worker w ends its memory task in this step and the save to the
\* knowledge graph failed (another status than 200, or an exception).
GraphFailed(w) ==
    /\ workers[w].pc = "advance"
    /\ workers'[w] = Idle
    /\ result'.call = "save_personal_memory"
    /\ result'.id = workers[w].job.task_id
    /\ result'.error \in {"500", "raises"}

\* C28: a failed knowledge-graph save is not propagated: the task that
\* made it completes, is neither retried nor failed, and the watermark it
\* stored is kept.
C28_Step ==
    \A w \in Workers :
        GraphFailed(w) =>
            LET job == workers[w].job
            IN /\ job.task_id \in done'
               /\ \A k \in queue' \cup dead' : k.task_id # job.task_id
               /\ faults' = faults
               /\ sessions' = update_last_memory_processed_at(sessions, job.session_id,
                                                              workers[w].count)

C28_GraphFailureNotPropagated == [][C28_Step]_vars

\* A task whose save raised is done and its session's watermark is advanced.
C28_Witness ==
    /\ result.call = "save_personal_memory"
    /\ result.error = "raises"
    /\ result.id \in done
    /\ \E s \in DOMAIN sessions : Watermark(s) >= 2
    /\ memories # <<>>

\* The appends to session s that have returned.
Returned(s) ==
    {r \in Requests : txns[r].session_id = s /\ txns[r].pc \in {"committed", "failed"}}

\* C30: appends to one session are serialized: however the appends
\* interleave, every append that has returned has its message stored and
\* the message count has grown by exactly the number of appends.
C30_NoLostUpdate ==
    \A s \in DOMAIN sessions :
        (\A r \in Requests : txns[r].session_id = s => txns[r].pc # "read") =>
            /\ get_message_count(sessions, s) = Cardinality(Returned(s))
            /\ \A r \in Returned(s) :
                  \E n \in 1..Len(sessions[s].messages) :
                      sessions[s].messages[n] = txns[r].messages[Len(txns[r].messages)]

\* The n newest entries of a list, in the order of the list.
Newest(seq, n) ==
    LET k == IF Len(seq) < n THEN Len(seq) ELSE n
    IN [i \in 1..k |-> seq[Len(seq) - k + i]]

\* A step that is a call of add_message_to_session on a stored session.
Added ==
    /\ DOMAIN sessions' = DOMAIN sessions
    /\ <<sessions', result'>> # <<sessions, result>>
    /\ result'.call = "add_message_to_session"
    /\ result'.error # "False"

C31_Step ==
    Added =>
        \E s \in DOMAIN sessions :
            /\ \A x \in DOMAIN sessions \ {s} : sessions'[x] = sessions[x]
            /\ \E role \in {"user", "assistant"}, c \in Statements :
                  sessions'[s].messages =
                     Newest(Append(sessions[s].messages, Message(role, c)),
                            max_session_messages)
            /\ Len(sessions'[s].messages) >= Len(sessions[s].messages)
            /\ result'.id = Len(sessions'[s].messages)

\* C31: after any sequence of add_message_to_session calls the stored list
\* has at most max_session_messages entries, they are the newest appended
\* messages in append order, and the message count written equals the
\* length of the stored list (and never decreases).
C31_RotationKeepsNewest ==
    /\ [][C31_Step]_vars
    /\ [](\A s \in DOMAIN sessions : Len(sessions[s].messages) <= max_session_messages)

\* The last call cut the list: the session is full and its oldest entry
\* differs from its newest.
C31_Witness ==
    /\ result.call = "add_message_to_session"
    /\ result.error = "rotated"
    /\ \E s \in DOMAIN sessions :
          /\ Len(sessions[s].messages) = max_session_messages
          /\ result.id = max_session_messages
          /\ sessions[s].messages[1] # sessions[s].messages[max_session_messages]

\* A statement about a fact no stored memory is about.
Independent == <<"drink", "coffee">>

\* The candidate c conflicts with no memory of user u.
NonConflicting(u, c) ==
    \A i \in UserFilter(memories, u) :
        ~ /\ memories[i].content[1] = c[1]
          /\ memories[i].content # c
          /\ Status(i) = "active"

\* The store after user u added a turn stating c.
AfterAdding(u, c) == process_memories(memories, TurnMessages(c), u, FirstIds, 0).store

Checked(s) ==
    /\ s \in DOMAIN sessions
    /\ result' # result
    /\ result'.call = "check_and_process_topic_change"
    /\ result'.id = SessionNo(s)

\* C33: a call that finds message_count <= last_memory_processed_at
\* (NoWork) or fewer than two messages above the watermark (NotReady)
\* returns with that verdict before the detector is asked, enqueues nothing
\* and leaves the session and the store as they were.
C33_Step ==
    \A s \in SessionIds :
        Checked(s) /\ Len(sessions[s].messages) - Watermark(s) < 2 =>
            /\ result'.error =
                  IF Len(sessions[s].messages) <= Watermark(s) THEN "NoWork" ELSE "NotReady"
            /\ sessions' = sessions
            /\ memories' = memories
            /\ queue' = queue

C33_GateReturnsEarly == [][C33_Step]_vars

\* Both verdicts were given: a session at its watermark after an
\* extraction, and one with a single message above it.
C33_Witness ==
    /\ result.call = "check_and_process_topic_change"
    /\ result.error = "NotReady"
    /\ \E s \in DOMAIN sessions :
          /\ Watermark(s) >= 2
          /\ Len(sessions[s].messages) = Watermark(s) + 1
          /\ result.id = SessionNo(s)

\* The extraction jobs dispatched for session s in this step.
Dispatched(s) ==
    {j \in queue' \ queue : j.kind = "memory" /\ j.session_id = s /\ j.retries = 0}

\* Worker w completes the extraction job of session s in this step.
Completes(w, s) ==
    /\ workers[w].pc = "advance"
    /\ workers[w].job.kind = "memory"
    /\ workers[w].job.session_id = s
    /\ workers'[w] = Idle
    /\ workers[w].job.task_id \in done'

C34_DispatchStep ==
    \A s \in SessionIds :
        \A j \in Dispatched(s) :
            j.messages = get_messages_since_count(sessions', s, Watermark(s))

C34_CompleteStep ==
    \A s \in SessionIds, w \in Workers :
        Completes(w, s) =>
            sessions'[s].last_memory_processed_at
                <= Watermark(s) + Len(workers[w].job.messages)

\* C34: an extraction job carries exactly the messages above
\* last_memory_processed_at at dispatch, and its success advances the
\* watermark to the count captured at dispatch: the watermark moves over
\* no more messages than the job carried, so messages appended while the
\* job was queued or running stay above it.
C34_WindowAndTarget == [][C34_DispatchStep /\ C34_CompleteStep]_vars

\* The messages appended to session s in this step.
Appended(s) ==
    IF s \in DOMAIN sessions /\ s \in DOMAIN sessions'
    THEN SubSeq(sessions'[s].messages, Len(sessions[s].messages) + 1,
                Len(sessions'[s].messages))
    ELSE <<>>

\* C35: no message lies in the windows of two different extraction jobs: a
\* step dispatches at most one job for a session, and its window holds
\* exactly the messages appended in that step, none of which an earlier
\* job (pending, running or done) can carry.
C35_Step ==
    \A s \in SessionIds :
        /\ Cardinality(Dispatched(s)) <= 1
        /\ \A j \in Dispatched(s) :
              /\ j.messages = Appended(s)
              /\ \A k \in Pending : k.task_id # j.task_id

C35_WindowsDisjoint == [][C35_Step]_vars

\* Two different extraction jobs of one session are pending at once.
C35_Witness ==
    \E j \in Pending, k \in Pending :
        /\ j.task_id # k.task_id
        /\ j.kind = "memory" /\ k.kind = "memory"
        /\ j.session_id = k.session_id
        /\ Len(sessions[j.session_id].messages) = Len(j.messages) + Len(k.messages)

\* An extraction job whose extractor returns an empty list.
EmptyJob(j) == j.kind = "memory" /\ _extract_memories(j.messages) = <<>>

C36_SkipsStore ==
    \A w \in Workers :
        workers[w].pc # "idle" /\ EmptyJob(workers[w].job) =>
            /\ workers[w].pc = "advance"
            /\ workers[w].new = <<>>
            /\ workers[w].existing = <<>>

C36_Step ==
    \A w \in Workers :
        workers[w].pc # "idle" /\ EmptyJob(workers[w].job) /\ workers'[w] # workers[w] =>
            LET job == workers[w].job
            IN /\ memories' = memories
               /\ job.task_id \in done'
               /\ \A k \in queue' \cup dead' : k.task_id # job.task_id
               /\ sessions'[job.session_id].last_memory_processed_at >= workers[w].count
               /\ sessions'[job.session_id].last_memory_processed_at
                     >= Watermark(job.session_id)

\* C36: an extraction job whose extractor returns nothing goes from the
\* extraction straight to its completion: no search, no consolidation and
\* no write to the store; it completes, is not retried, and the watermark
\* is advanced to the message count it read.
C36_EmptyExtractionCompletes == [](C36_SkipsStore) /\ [][C36_Step]_vars

\* A job that extracted nothing is done, its window lies below the
\* watermark and the store is empty.
C36_Witness ==
    /\ memories = <<>>
    /\ done # {}
    /\ \E s \in DOMAIN sessions :
          /\ Watermark(s) >= 2
          /\ \A n \in 1..Watermark(s) : sessions[s].messages[n].content = NoFact

\* The write phase of worker w's extraction job raised in this step.
WriteFailed(w) ==
    /\ workers[w].pc = "store"
    /\ workers'[w] = Idle
    /\ faults' = faults + 1

\* C37: the write phase of an extraction job is all-or-nothing: when one
\* of its inserts or updates fails, the store is as it was before the
\* write phase began.
C37_Step ==
    \A w \in Workers : WriteFailed(w) => memories' = memories

C37_WritePhaseAtomic == [][C37_Step]_vars

\* The step is a call of delete_session on the stored session s.
DeleteCalled(s) ==
    /\ s \in DOMAIN sessions
    /\ result' # result
    /\ result'.call = "delete_session"
    /\ result'.id = SessionNo(s)

\* C38: delete_session removes the session with all of its messages and
\* summary records, and leaves every memory as it was.
C38_Step ==
    \A s \in SessionIds :
        DeleteCalled(s) =>
            /\ s \notin DOMAIN sessions'
            /\ summaries'[s] = <<>>
            /\ memories' = memories

C38_DeleteRemovesAll == [][C38_Step]_vars

\* The messages of a session come in pairs of a user message and its reply.
Paired(messages) ==
    /\ Len(messages) % 2 = 0
    /\ \A n \in 1..Len(messages) :
          messages[n].role = IF n % 2 = 1 THEN "user" ELSE "assistant"

\* The step is a streamed turn on session s whose generation failed.
StreamFailed(s) ==
    /\ s \in DOMAIN sessions
    /\ DOMAIN sessions' = DOMAIN sessions
    /\ result' # result \/ sessions' # sessions
    /\ result'.call = "chat_with_memory_stream"
    /\ result'.id = SessionNo(s)
    /\ result'.error = "error"

C39_Step ==
    \A s \in SessionIds :
        StreamFailed(s) => sessions' = sessions /\ queue' = queue /\ memories' = memories

\* C39: a turn whose response generation fails leaves the session as it
\* was and enqueues nothing: no user message is stored without its reply,
\* so the messages of every session at rest come in user/assistant pairs.
C39_FailedTurnLeavesSession ==
    /\ [][C39_Step]_vars
    /\ [](\A s \in DOMAIN sessions : Paired(sessions[s].messages))

\* C40: get_or_create_session(user_id, session_id) returns the id of a
\* session owned by user_id, also when session_id names the session of
\* another user.
C40_Step ==
    \A u \in Users, sid \in SessionIds \cup {"none"} :
        get_or_create_session(u, sid) =>
            \E s \in DOMAIN sessions' :
                /\ SessionNo(s) = result'.id
                /\ sessions'[s].user_id = u

C40_ReturnsOwnSession == [][C40_Step]_vars

====
